---------------------------- MODULE Spec2Model ----------------------------
(***************************************************************************)
(* Huffman coding as implemented by huffmanCoding.py: class BinaryTreeNode,*)
(* class HuffmanCoding (compress / decompress) and the heapq operations the*)
(* class calls.  Bit strings ('0'/'1' Python strings) are sequences over   *)
(* {0, 1}; texts are sequences of one-character strings.                   *)
(***************************************************************************)
EXTENDS Integers, Sequences, FiniteSets, TLC

VARIABLES
    pc,                  \* position of the running call: "idle" between calls
    calls,               \* number of compress calls made on the instance
    heap,                \* self.__heap
    codes,               \* self.__codes
    reverseCodes,        \* self.__reverseCodes
    text,                \* compress: text (after rstrip)
    merges,              \* compress: iterations of the while loop of __buildTree
    encoded_text,        \* compress: encoded_text
    padded_encoded_text, \* compress: padded_encoded_text
    artifact,            \* the bytes of the output file <filename>.bin
    input,               \* decompress: the bytes read from input_path
    actual_text,         \* decompress: actual_text (after __removePadding)
    current_bits,        \* decompress: current_bits when __decodeText's loop ends
    decompressed_text,   \* decompress: decompressed_text, written to the output file
    outcome              \* how the last call ended

vars == <<pc, calls, heap, codes, reverseCodes, text, merges, encoded_text,
          padded_encoded_text, artifact, input, actual_text, current_bits,
          decompressed_text, outcome>>

----------------------------------------------------------------------------
(* Bounds of the model. *)

\* longest file content (before trailing whitespace) of the script's run
MaxLen == 6
\* most trailing whitespace characters after the content
MaxTrail == 1
\* longest text of a call in a session that reuses the instance
SessionMaxLen == 3
\* most compress calls on one instance in a session
MaxCalls == 2

Alphabet == {"a", "b", "c", "d"}
Whitespace == " "

----------------------------------------------------------------------------
(* Python values and built-ins used by the source. *)

\* node.value of an internal node
None == "None"
\* a None child pointer
NoNode == [none |-> TRUE]

Min(a, b) == IF a < b THEN a ELSE b

Max(a, b) == IF a < b THEN b ELSE a

\* d[k] = v on a dict
Put(d, k, v) == [x \in (DOMAIN d) \cup {k} |-> IF x = k THEN v ELSE d[x]]

\* n * '0'
Zeros(n) == [i \in 1..n |-> 0]

\* s[a:b] for 0 <= a, 0 <= b
Slice(s, a, b) == SubSeq(s, a + 1, Min(b, Len(s)))

\* the binary digits of n >= 0 without leading zeros ('0' for 0)
RECURSIVE Binary(_)
Binary(n) == IF n < 2 THEN <<n>> ELSE Append(Binary(n \div 2), n % 2)

\* "{0:08b}".format(n), bin(n)[2:].rjust(8, '0')
Format08b(n) == LET b == Binary(n) IN Zeros(Max(0, 8 - Len(b))) \o b

\* int(bits, 2) of a non-empty bit string
RECURSIVE ParseInt2(_)
ParseInt2(bits) ==
    IF Len(bits) = 0 THEN 0
    ELSE 2 * ParseInt2(SubSeq(bits, 1, Len(bits) - 1)) + bits[Len(bits)]

\* text.rstrip()
RECURSIVE rstrip(_)
rstrip(s) ==
    IF Len(s) > 0 /\ s[Len(s)] = Whitespace
    THEN rstrip(SubSeq(s, 1, Len(s) - 1))
    ELSE s

----------------------------------------------------------------------------
(* class BinaryTreeNode *)

BinaryTreeNode(value, freq) ==
    [value |-> value, freq |-> freq, left |-> NoNode, right |-> NoNode]

\* lt with the comparison turned around
ltGreater(self, other) == self.freq > other.freq

lt(self, other) == self.freq < other.freq

----------------------------------------------------------------------------
(* heapq.heappush and heapq.heappop on a list of nodes compared by lt;     *)
(* positions are 0-based as in heapq, h[pos + 1] is the list's h[pos].     *)

RECURSIVE siftdownLoop(_, _, _, _)
siftdownLoop(h, startpos, pos, newitem) ==
    IF pos > startpos
    THEN LET parentpos == (pos - 1) \div 2
             parent == h[parentpos + 1]
         IN  IF lt(newitem, parent)
             THEN siftdownLoop([h EXCEPT ![pos + 1] = parent], startpos,
                               parentpos, newitem)
             ELSE [h EXCEPT ![pos + 1] = newitem]
    ELSE [h EXCEPT ![pos + 1] = newitem]

siftdown(h, startpos, pos) == siftdownLoop(h, startpos, pos, h[pos + 1])

RECURSIVE siftupLoop(_, _, _)
siftupLoop(h, pos, childpos) ==
    IF childpos < Len(h)
    THEN LET rightpos == childpos + 1
             c == IF rightpos < Len(h) /\ ~lt(h[childpos + 1], h[rightpos + 1])
                  THEN rightpos
                  ELSE childpos
         IN  siftupLoop([h EXCEPT ![pos + 1] = h[c + 1]], c, 2 * c + 1)
    ELSE [h |-> h, pos |-> pos]

siftup(h, pos) ==
    LET newitem == h[pos + 1]
        r == siftupLoop(h, pos, 2 * pos + 1)
    IN  siftdown([r.h EXCEPT ![r.pos + 1] = newitem], pos, r.pos)

heappush(h, item) == siftdown(Append(h, item), 0, Len(h))

\* the popped item and the list left; the caller checks Len(h) > 0
heappop(h) ==
    LET lastelt == h[Len(h)]
        rest == SubSeq(h, 1, Len(h) - 1)
    IN  IF Len(rest) > 0
        THEN [item |-> rest[1], h |-> siftup([rest EXCEPT ![1] = lastelt], 0)]
        ELSE [item |-> lastelt, h |-> rest]

----------------------------------------------------------------------------
(* class HuffmanCoding: the private helpers *)

\* a dict in insertion order: its keys in order and the value of each
EmptyDict == [keys |-> <<>>, count |-> <<>>]

RECURSIVE make_freq_dict_loop(_, _, _)
make_freq_dict_loop(t, i, freq_dict) ==
    IF i > Len(t) THEN freq_dict
    ELSE LET char == t[i]
             d == IF char \notin DOMAIN freq_dict.count
                  THEN [keys |-> Append(freq_dict.keys, char),
                        count |-> Put(freq_dict.count, char, 0)]
                  ELSE freq_dict
         IN  make_freq_dict_loop(t, i + 1,
                 [d EXCEPT !.count = Put(d.count, char, d.count[char] + 1)])

make_freq_dict(t) == make_freq_dict_loop(t, 1, EmptyDict)

RECURSIVE buildHeapLoop(_, _, _)
buildHeapLoop(h, freq_dict, i) ==
    IF i > Len(freq_dict.keys) THEN h
    ELSE LET char == freq_dict.keys[i]
             bt_node == BinaryTreeNode(char, freq_dict.count[char])
         IN  buildHeapLoop(heappush(h, bt_node), freq_dict, i + 1)

buildHeap(h, freq_dict) == buildHeapLoop(h, freq_dict, 1)

\* buildTreeStep with the children exchanged
buildTreeStepSwapped(h) ==
    LET p1 == heappop(h)
        p2 == heappop(p1.h)
        newNode == [BinaryTreeNode(None, p1.item.freq + p2.item.freq) EXCEPT
                        !.left = p2.item, !.right = p1.item]
    IN  heappush(p2.h, newNode)

\* one iteration of the while loop of __buildTree, for Len(h) > 1
buildTreeStep(h) ==
    LET p1 == heappop(h)
        p2 == heappop(p1.h)
        bt_node1 == p1.item
        bt_node2 == p2.item
        freq_sum == bt_node1.freq + bt_node2.freq
        newNode == [BinaryTreeNode(None, freq_sum) EXCEPT
                        !.left = bt_node1, !.right = bt_node2]
    IN  heappush(p2.h, newNode)

\* buildCodesHelper appending '0' on the way to either child
RECURSIVE buildCodesHelperSameBit(_, _, _)
buildCodesHelperSameBit(root, curr_bits, t) ==
    IF root = NoNode THEN t
    ELSE IF root.value # None
    THEN [codes |-> Put(t.codes, root.value, curr_bits),
          reverseCodes |-> Put(t.reverseCodes, curr_bits, root.value)]
    ELSE buildCodesHelperSameBit(root.right, Append(curr_bits, 0),
             buildCodesHelperSameBit(root.left, Append(curr_bits, 0), t))

\* t is the pair of tables [codes, reverseCodes] the traversal writes into
RECURSIVE buildCodesHelper(_, _, _)
buildCodesHelper(root, curr_bits, t) ==
    IF root = NoNode THEN t
    ELSE IF root.value # None
    THEN [codes |-> Put(t.codes, root.value, curr_bits),
          reverseCodes |-> Put(t.reverseCodes, curr_bits, root.value)]
    ELSE buildCodesHelper(root.right, Append(curr_bits, 1),
             buildCodesHelper(root.left, Append(curr_bits, 0), t))

RECURSIVE getEncodedTextLoop(_, _, _, _)
getEncodedTextLoop(t, c, i, enc) ==
    IF i > Len(t) THEN enc
    ELSE getEncodedTextLoop(t, c, i + 1, enc \o c[t[i]])

getEncodedText(t, c) == getEncodedTextLoop(t, c, 1, <<>>)

\* getPaddedEncodedText padding a length that is a multiple of 8 with nothing
getPaddedEncodedTextToBoundary(enc) ==
    LET padded_amount == (8 - (Len(enc) % 8)) % 8
        padded_info == Format08b(padded_amount)
    IN  padded_info \o (enc \o Zeros(padded_amount))

getPaddedEncodedText(enc) ==
    LET padded_amount == 8 - (Len(enc) % 8)
        padded_info == Format08b(padded_amount)
    IN  padded_info \o (enc \o Zeros(padded_amount))

RECURSIVE getBytesArrayLoop(_, _, _)
getBytesArrayLoop(padded, i, arr) ==
    IF i >= Len(padded) THEN arr
    ELSE getBytesArrayLoop(padded, i + 8,
             Append(arr, ParseInt2(Slice(padded, i, i + 8))))

\* getBytesArray with the range ending one chunk early
getBytesArrayShort(padded) ==
    getBytesArrayLoop(SubSeq(padded, 1, Len(padded) - 8), 0, <<>>)

getBytesArray(padded) == getBytesArrayLoop(padded, 0, <<>>)

\* the while loop of decompress: every byte as 8 bits
RECURSIVE bitString(_)
bitString(bytes) ==
    IF Len(bytes) = 0 THEN <<>>
    ELSE Format08b(bytes[1]) \o bitString(Tail(bytes))

\* for Len(t) > 0; text[:-1*extra_padding] is text[:0] when extra_padding is 0
removePadding(t) ==
    LET padded_info == Slice(t, 0, 8)
        extra_padding == ParseInt2(padded_info)
        rest == SubSeq(t, 9, Len(t))
    IN  IF extra_padding = 0 THEN <<>>
        ELSE Slice(rest, 0, Max(0, Len(rest) - extra_padding))

\* the decoded text and current_bits as the loop leaves it
RECURSIVE decodeTextLoop(_, _, _, _, _)
decodeTextLoop(t, rc, i, decoded, cur) ==
    IF i > Len(t) THEN [decoded_text |-> decoded, current_bits |-> cur]
    ELSE LET cur1 == Append(cur, t[i])
         IN  IF cur1 \in DOMAIN rc
             THEN decodeTextLoop(t, rc, i + 1, Append(decoded, rc[cur1]), <<>>)
             ELSE decodeTextLoop(t, rc, i + 1, decoded, cur1)

decodeText(t, rc) == decodeTextLoop(t, rc, 1, <<>>, <<>>)

----------------------------------------------------------------------------
(* The state after h = HuffmanCoding(path). *)

Init ==
    /\ pc = "idle"
    /\ calls = 0
    /\ heap = <<>>
    /\ codes = <<>>
    /\ reverseCodes = <<>>
    /\ text = <<>>
    /\ merges = 0
    /\ encoded_text = <<>>
    /\ padded_encoded_text = <<>>
    /\ artifact = <<>>
    /\ input = <<>>
    /\ actual_text = <<>>
    /\ current_bits = <<>>
    /\ decompressed_text = <<>>
    /\ outcome = "none"

----------------------------------------------------------------------------
(* compress(), one action per stage.  The call opens the output file with  *)
(* 'wb' (it is empty from then on), reads and strips the text, and pushes  *)
(* one leaf per entry of the frequency dict.  The locals of an earlier     *)
(* decompress call are gone.                                               *)

compress(content) ==
    /\ pc = "idle"
    /\ calls' = calls + 1
    /\ text' = rstrip(content)
    /\ heap' = buildHeap(heap, make_freq_dict(text'))
    /\ merges' = 0
    /\ artifact' = <<>>
    /\ encoded_text' = <<>>
    /\ padded_encoded_text' = <<>>
    /\ input' = <<>>
    /\ actual_text' = <<>>
    /\ current_bits' = <<>>
    /\ decompressed_text' = <<>>
    /\ outcome' = "running"
    /\ pc' = "buildTree"
    /\ UNCHANGED <<codes, reverseCodes>>

\* __buildTree: one iteration of `while len(self.__heap) > 1`
buildTreeMerge ==
    /\ pc = "buildTree"
    /\ Len(heap) > 1
    /\ heap' = buildTreeStep(heap)
    /\ merges' = merges + 1
    /\ UNCHANGED <<pc, calls, codes, reverseCodes, text, encoded_text,
                   padded_encoded_text, artifact, input, actual_text,
                   current_bits, decompressed_text, outcome>>

\* __buildTree: the loop condition fails, return
buildTreeReturn ==
    /\ pc = "buildTree"
    /\ ~(Len(heap) > 1)
    /\ pc' = "buildCodes"
    /\ UNCHANGED <<calls, heap, codes, reverseCodes, text, merges,
                   encoded_text, padded_encoded_text, artifact, input,
                   actual_text, current_bits, decompressed_text, outcome>>

\* __buildCodes: heappop of an empty list raises IndexError, which leaves
\* compress; otherwise the traversal from the popped root fills the tables
buildCodes ==
    /\ pc = "buildCodes"
    /\ IF Len(heap) = 0
       THEN /\ outcome' = "IndexError"
            /\ pc' = "idle"
            /\ UNCHANGED <<heap, codes, reverseCodes>>
       ELSE LET p == heappop(heap)
                t == buildCodesHelper(p.item, <<>>,
                         [codes |-> codes, reverseCodes |-> reverseCodes])
            IN  /\ heap' = p.h
                /\ codes' = t.codes
                /\ reverseCodes' = t.reverseCodes
                /\ pc' = "encode"
                /\ UNCHANGED outcome
    /\ UNCHANGED <<calls, text, merges, encoded_text, padded_encoded_text,
                   artifact, input, actual_text, current_bits,
                   decompressed_text>>

\* __getEncodedText, __getPaddedEncodedText, __getBytesArray, output.write
encodeAndWrite ==
    /\ pc = "encode"
    /\ encoded_text' = getEncodedText(text, codes)
    /\ padded_encoded_text' = getPaddedEncodedText(encoded_text')
    /\ artifact' = getBytesArray(padded_encoded_text')
    /\ outcome' = "compressed"
    /\ pc' = "idle"
    /\ UNCHANGED <<calls, heap, codes, reverseCodes, text, merges, input,
                   actual_text, current_bits, decompressed_text>>

----------------------------------------------------------------------------
(* decompress(input_path) on a file holding the bytes in.  int('', 2) of   *)
(* an empty file's header raises ValueError.                               *)

decompress(in) ==
    /\ pc = "idle"
    /\ calls > 0
    /\ input' = in
    /\ IF Len(in) = 0
       THEN /\ outcome' = "ValueError"
            /\ actual_text' = <<>>
            /\ current_bits' = <<>>
            /\ decompressed_text' = <<>>
       ELSE LET actual == removePadding(bitString(in))
                d == decodeText(actual, reverseCodes)
            IN  /\ actual_text' = actual
                /\ current_bits' = d.current_bits
                /\ decompressed_text' = d.decoded_text
                /\ outcome' = "decompressed"
    /\ UNCHANGED <<pc, calls, heap, codes, reverseCodes, text, merges,
                   encoded_text, padded_encoded_text, artifact>>

----------------------------------------------------------------------------
(* The inputs. *)

\* the texts over the alphabet of at most n characters
Texts(n) == UNION {[1..k -> Alphabet] : k \in 0..n}

\* file contents: a text and trailing whitespace
Contents(n) ==
    {t \o [i \in 1..w |-> Whitespace] : t \in Texts(n), w \in 0..MaxTrail}

\* the file with bit i of its bit string flipped
FlipBit(bytes, i) ==
    getBytesArray([bitString(bytes) EXCEPT ![i] = 1 - @])

\* the artifact as written, or with one bit flipped
Files(bytes) == {bytes} \cup {FlipBit(bytes, i) : i \in 1..(8 * Len(bytes))}

----------------------------------------------------------------------------
(* The script at the end of the source: one instance, compress, then       *)
(* decompress of the file compress returned.                               *)

Next ==
    \/ (pc = "idle" /\ calls = 0
            /\ \E content \in Contents(MaxLen) : compress(content))
    \/ buildTreeMerge
    \/ buildTreeReturn
    \/ buildCodes
    \/ encodeAndWrite
    \/ (outcome = "compressed" /\ decompress(artifact))

Spec == Init /\ [][Next]_vars

(* A session on one instance: compress calls over several inputs, and      *)
(* decompress of the output file as written or corrupted.                  *)

SessionNext ==
    \/ (pc = "idle" /\ calls < MaxCalls
            /\ \E content \in Contents(SessionMaxLen) : compress(content))
    \/ buildTreeMerge
    \/ buildTreeReturn
    \/ buildCodes
    \/ encodeAndWrite
    \/ (pc = "idle" /\ \E in \in Files(artifact) : decompress(in))

SessionSpec == Init /\ [][SessionNext]_vars

----------------------------------------------------------------------------
(* Vocabulary of the properties. *)

\* the distinct symbols of a text
Symbols(t) == {t[i] : i \in DOMAIN t}

\* the number of occurrences of c in t
Count(t, c) == Cardinality({i \in DOMAIN t : t[i] = c})

\* x is a prefix of y (x = y included)
IsPrefix(x, y) == Len(x) <= Len(y) /\ SubSeq(y, 1, Len(x)) = x

\* the tables of the running or last compress call have been filled
CodesBuilt == pc = "encode" \/ outcome \in {"compressed", "decompressed"}

\* the last compress call has written its artifact
Written == outcome \in {"compressed", "decompressed"}

\* the unsigned value of 8 bits, most significant first
Unsigned8(b) ==
    128 * b[1] + 64 * b[2] + 32 * b[3] + 16 * b[4] + 8 * b[5] + 4 * b[6]
        + 2 * b[7] + b[8]

\* the entries of s outside the positions I and those of t outside J are the
\* same, counted with repetition
SameEntries(s, I, t, J) ==
    LET inS(x) == Cardinality({m \in (DOMAIN s) \ I : s[m] = x})
        inT(x) == Cardinality({m \in (DOMAIN t) \ J : t[m] = x})
    IN  /\ \A m \in (DOMAIN s) \ I : inS(s[m]) = inT(s[m])
        /\ \A m \in (DOMAIN t) \ J : inS(t[m]) = inT(t[m])

----------------------------------------------------------------------------
(* C1  Round trip: after compress of a non-empty text S and decompress of  *)
(* the file compress wrote, with the tables of that one compress call, the *)
(* decompressed text is S.                                                 *)
C1_RoundTrip ==
    (outcome = "decompressed" /\ input = artifact /\ calls = 1
        /\ text # <<>>)
        => decompressed_text = text

(* C2  Degenerate alphabet: for a text of one distinct symbol repeated, the*)
(* symbol's code is not the empty bit string, and decompressing the        *)
(* written file gives the text back.                                       *)
C2_DegenerateAlphabet ==
    Cardinality(Symbols(text)) = 1 =>
        /\ CodesBuilt => \A c \in Symbols(text) : codes[c] # <<>>
        /\ (outcome = "decompressed" /\ input = artifact)
               => decompressed_text = text

(* C3  Empty input: once tree building is over for an empty text, the call *)
(* has ended with the error EmptyInput and the output file holds no bytes. *)
C3_EmptyInput ==
    (calls > 0 /\ text = <<>> /\ pc # "buildTree")
        => (pc = "idle" /\ outcome = "EmptyInput" /\ artifact = <<>>)

(* C4  Malformed stream: a decode that reaches the end of the bit string   *)
(* with a non-empty buffer matching no entry of the reverse table ends     *)
(* with the error MalformedStream, not with a decoded text.                *)
C4_MalformedStream ==
    (pc = "idle" /\ current_bits # <<>>
        /\ current_bits \notin DOMAIN reverseCodes)
        => outcome = "MalformedStream"

(* C5  Prefix-free codes: for a text of at least two distinct symbols, no  *)
(* symbol's code is a prefix of another symbol's code; every code is       *)
(* non-empty and the codes are distinct.                                   *)
C5_PrefixFree ==
    (CodesBuilt /\ Cardinality(Symbols(text)) >= 2) =>
        /\ Symbols(text) \subseteq DOMAIN codes
        /\ \A a \in Symbols(text) : codes[a] # <<>>
        /\ \A a, b \in Symbols(text) :
               a # b => (~IsPrefix(codes[a], codes[b]) /\ codes[a] # codes[b])

C5_Witness ==
    /\ CodesBuilt
    /\ Cardinality(Symbols(text)) >= 3
    /\ \E a, b \in Symbols(text) : Len(codes[a]) = 1 /\ Len(codes[b]) = 2

(* C6 as stated: the artifact of an encoded text of L bits has             *)
(* ceil((L + 8) / 8) bytes.                                                *)
C6_SizeIsCeil ==
    Written => Len(artifact) = (Len(encoded_text) + 8 + 7) \div 8

(* C6 amended: the artifact has floor(L / 8) + 2 bytes: ceil((L + 8) / 8)  *)
(* when L is not a multiple of 8, and one byte more when it is (L = 0      *)
(* included).                                                              *)
C6_Size ==
    Written =>
        LET L == Len(encoded_text)
            ceil == (L + 8 + 7) \div 8
        IN  /\ Len(artifact) = (L \div 8) + 2
            /\ L % 8 # 0 => Len(artifact) = ceil
            /\ L % 8 = 0 => Len(artifact) = ceil + 1

C6_Witness ==
    Written /\ Len(encoded_text) = 8 /\ Len(artifact) = 3

(* C7  Padded text layout: the padded encoded text is 8 header bits whose  *)
(* unsigned big-endian value is p, then the encoded text, then p zero bits,*)
(* with p = 8 - (L mod 8) in 1..8; its length is a multiple of 8; and the  *)
(* decoder's padding removal gives the encoded text back.                  *)
C7_PaddedLayout ==
    Written =>
        LET L == Len(encoded_text)
            header == SubSeq(padded_encoded_text, 1, 8)
            p == Unsigned8(header)
        IN  /\ Len(padded_encoded_text) >= 8
            /\ p = 8 - (L % 8)
            /\ p \in 1..8
            /\ L % 8 = 0 => p = 8
            /\ padded_encoded_text = (header \o encoded_text) \o Zeros(p)
            /\ Len(padded_encoded_text) % 8 = 0
            /\ removePadding(padded_encoded_text) = encoded_text
            /\ outcome = "decompressed" => actual_text = encoded_text

C7_Witness ==
    /\ outcome = "decompressed"
    /\ Len(encoded_text) > 0
    /\ Len(encoded_text) % 8 = 0
    /\ Unsigned8(SubSeq(padded_encoded_text, 1, 8)) = 8

(* C8  Frequency-ordered codes: a symbol that occurs more often than       *)
(* another has a code that is no longer.                                   *)
C8_FrequencyOrdered ==
    CodesBuilt =>
        \A a, b \in Symbols(text) :
            Count(text, a) > Count(text, b) => Len(codes[a]) <= Len(codes[b])

C8_Witness ==
    /\ CodesBuilt
    /\ \E a, b \in Symbols(text) :
           Count(text, a) > Count(text, b) /\ Len(codes[a]) < Len(codes[b])

(* C9  Tree building: every iteration of the loop takes the two nodes of   *)
(* lowest frequency out of the queue (the first taken becomes the left     *)
(* child, the second the right child) and puts in one internal node whose  *)
(* frequency is their sum, so that the queue is one node shorter; for a    *)
(* frequency table of n >= 1 entries the queue holds n - m nodes after m   *)
(* iterations, and the loop is left after exactly n - 1 iterations with    *)
(* one node in the queue, whose frequency is the number of symbols of the  *)
(* text.                                                                   *)
C9_MergeTwoLowest ==
    /\ Len(heap') = Len(heap) - 1
    /\ merges' = merges + 1
    /\ \E i, j \in DOMAIN heap, k \in DOMAIN heap' :
          /\ i # j
          /\ \A m \in DOMAIN heap : heap[i].freq <= heap[m].freq
          /\ \A m \in (DOMAIN heap) \ {i} : heap[j].freq <= heap[m].freq
          /\ heap[i] = heappop(heap).item
          /\ heap'[k] = [value |-> None,
                         freq |-> heap[i].freq + heap[j].freq,
                         left |-> heap[i], right |-> heap[j]]
          /\ SameEntries(heap', {k}, heap, {i, j})

C9_LoopState ==
    LET n == Cardinality(Symbols(text))
    IN  /\ pc = "buildTree" => Len(heap) = n - merges
        /\ (pc = "buildCodes" /\ n >= 1) =>
               /\ merges = n - 1
               /\ Len(heap) = 1
               /\ heap[1].freq = Len(text)

C9_TreeBuilding ==
    /\ []C9_LoopState
    /\ [][(pc = "buildTree" /\ Len(heap) > 1) => C9_MergeTwoLowest]_vars

C9_Witness ==
    /\ pc = "buildCodes"
    /\ merges = 3
    /\ Len(heap) = 1
    /\ heap[1].freq = Len(text)
    /\ heap[1].left.freq < heap[1].right.freq

(* C10  Tables of one encode pass: when a compress call has returned,      *)
(* whatever compress calls the instance served before, the heap is empty,  *)
(* the code table holds exactly the entries of the most recent text, and   *)
(* the reverse table is its inverse.                                       *)
C10_TablesOfOnePass ==
    (pc = "idle" /\ Written) =>
        /\ heap = <<>>
        /\ DOMAIN codes = Symbols(text)
        /\ DOMAIN reverseCodes = {codes[c] : c \in DOMAIN codes}
        /\ \A c \in DOMAIN codes : reverseCodes[codes[c]] = c

=============================================================================
